---- MODULE Spec2Model ----
(***************************************************************************)
(* Grocify: the ingredient matcher and the recipe ranker of                *)
(* grocify/inventory/api_utils.py, as a state machine.                     *)
(*                                                                         *)
(* Python strings are TLA+ strings (sequences of characters): Len, SubSeq  *)
(* and \o are the only primitives used on them, so every conversion        *)
(* (lower, strip, translate, re.sub, split) is computed character by       *)
(* character as the library computes it.                                   *)
(***************************************************************************)
EXTENDS Integers, Sequences, FiniteSets, TLC

(***************************************************************************)
(* Characters and the str methods the code calls.                          *)
(***************************************************************************)
UpperLetters == "ABCDEFGHIJKLMNOPQRSTUVWXYZ"

LowerLetters == "abcdefghijklmnopqrstuvwxyz"

Ch(s, i) == SubSeq(s, i, i)

CharSet(alphabet) == {Ch(alphabet, i) : i \in 1..Len(alphabet)}

UpperSet == CharSet(UpperLetters)

\* string.punctuation (without the grave accent, which a TLA+ string cannot
\* hold; no input of the model contains it)
PunctuationSet == CharSet("!\"#$%&'()*+,-./:;<=>?@[\\]^_{|}~")

\* the characters str.strip() and str.split() treat as white space
WhitespaceSet == CharSet(" \t\n\r\f")

DigitSet == CharSet("0123456789")

\* the regex class \w: letters, digits and the underscore
WordCharSet == CharSet(LowerLetters) \cup UpperSet \cup DigitSet \cup {"_"}

IsSpace(c) == c \in WhitespaceSet

IsDigit(c) == c \in DigitSet

IsWordChar(c) == c \in WordCharSet

LowerOf == [c \in UpperSet |->
              Ch(LowerLetters, CHOOSE i \in 1..Len(UpperLetters) : Ch(UpperLetters, i) = c)]

LowerChar(c) == IF c \in UpperSet THEN LowerOf[c] ELSE c

RECURSIVE ConcatRange(_, _, _)
\* pieces[lo] \o ... \o pieces[hi], by halves (the recursion stays shallow)
ConcatRange(pieces, lo, hi) ==
    IF lo > hi THEN ""
    ELSE IF lo = hi THEN pieces[lo]
    ELSE LET mid == (lo + hi) \div 2
         IN ConcatRange(pieces, lo, mid) \o ConcatRange(pieces, mid + 1, hi)

\* ''.join(pieces)
Concat(pieces) == ConcatRange(pieces, 1, Len(pieces))

\* str.lower()
Lower(s) ==
    IF \A i \in 1..Len(s) : Ch(s, i) \notin UpperSet THEN s
    ELSE Concat([i \in 1..Len(s) |-> LowerChar(Ch(s, i))])

\* str.strip()
Strip(s) ==
    IF \A i \in 1..Len(s) : IsSpace(Ch(s, i)) THEN ""
    ELSE SubSeq(s, CHOOSE i \in 1..Len(s) : ~IsSpace(Ch(s, i)) /\ \A j \in 1..(i - 1) : IsSpace(Ch(s, j)),
                   CHOOSE i \in 1..Len(s) : ~IsSpace(Ch(s, i)) /\ \A j \in (i + 1)..Len(s) : IsSpace(Ch(s, j)))

\* s.translate(str.maketrans('', '', string.punctuation))
RemovePunctuation(s) ==
    Concat([i \in 1..Len(s) |-> IF Ch(s, i) \in PunctuationSet THEN "" ELSE Ch(s, i)])

\* a in b, for strings
Contains(a, b) == \E i \in 1..(Len(b) - Len(a) + 1) : SubSeq(b, i, i + Len(a) - 1) = a

\* b.endswith(a)
EndsWith(b, a) == Len(a) <= Len(b) /\ SubSeq(b, Len(b) - Len(a) + 1, Len(b)) = a

\* the n-th smallest element of a set of numbers
NthSmallest(S, n) == CHOOSE i \in S : Cardinality({j \in S : j < i}) = n - 1

\* the word of s that starts at position i
WordAt(s, i) ==
    SubSeq(s, i, CHOOSE j \in i..Len(s) :
                    /\ \A k \in i..j : ~IsSpace(Ch(s, k))
                    /\ (j = Len(s) \/ IsSpace(Ch(s, j + 1))))

\* the words of s that start at the positions 'starts', in order
WordsFrom(s, starts) ==
    [n \in 1..Cardinality(starts) |-> WordAt(s, NthSmallest(starts, n))]

\* str.split(): the words between runs of white space, in order
Split(s) ==
    WordsFrom(s, {i \in 1..Len(s) : ~IsSpace(Ch(s, i)) /\ (i = 1 \/ IsSpace(Ch(s, i - 1)))})

InSeq(x, seq) == \E i \in 1..Len(seq) : seq[i] = x

SeqToSet(seq) == {seq[i] : i \in 1..Len(seq)}

\* the regex \b at position i (between s[i-1] and s[i], 1-based)
WordBoundary(s, i) ==
    (i > 1 /\ IsWordChar(Ch(s, i - 1))) # (i <= Len(s) /\ IsWordChar(Ch(s, i)))

\* \bword\b matches s at position i
MatchesWordAt(word, s, i) ==
    /\ SubSeq(s, i, i + Len(word) - 1) = word
    /\ WordBoundary(s, i)
    /\ WordBoundary(s, i + Len(word))

\* s without the characters inside the matches of length n that start at the
\* positions 'starts'
DropMatches(s, n, starts) ==
    IF starts = {} THEN s
    ELSE Concat([p \in 1..Len(s) |->
                   IF \E i \in starts : i <= p /\ p < i + n THEN "" ELSE Ch(s, p)])

\* re.sub(rf'\b{word}\b', '', s): every character inside a match is dropped.
\* (Two matches of one word never overlap for the words of the code's lists:
\* a match starts and ends at a word boundary and no word of the lists has a
\* proper prefix that is also its suffix after a boundary.)
RemoveWord(word, s) ==
    DropMatches(s, Len(word), {i \in 1..(Len(s) - Len(word) + 1) : MatchesWordAt(word, s, i)})

RECURSIVE RemoveWordsRange(_, _, _, _)
RemoveWordsRange(words, lo, hi, s) ==
    IF lo > hi THEN s
    ELSE IF lo = hi THEN RemoveWord(words[lo], s)
    ELSE LET mid == (lo + hi) \div 2
         IN CHOOSE r \in {RemoveWordsRange(words, mid + 1, hi, l) :
                              l \in {RemoveWordsRange(words, lo, mid, s)}} : TRUE

\* for word in words: s = re.sub(rf'\b{word}\b', '', s)
RemoveWords(words, s) == RemoveWordsRange(words, 1, Len(words), s)

(***************************************************************************)
(* _check_ingredient_match_smart                                           *)
(***************************************************************************)
filler_words ==
    << "fresh", "dried", "powdered", "ground", "chopped", "sliced", "diced",
       "minced", "grated", "crushed", "whole", "raw", "cooked", "roasted",
       "toasted", "optional", "for garnish", "as needed", "to taste" >>

\* the synonym table, each entry <<base, list of aliases>>
synonyms ==
    << <<"egg", <<"eggs", "anda", "andey">> >>,
       <<"onion", <<"onions", "pyaz", "pyaaz">> >>,
       <<"tomato", <<"tomatoes", "tamatar">> >>,
       <<"potato", <<"potatoes", "aloo", "aaloo">> >>,
       <<"garlic", <<"lehsun", "lasan">> >>,
       <<"ginger", <<"adrak">> >>,
       <<"yogurt", <<"curd", "dahi", "yoghurt">> >>,
       <<"oil", <<"tel", "cooking oil">> >>,
       <<"salt", <<"namak">> >>,
       <<"sugar", <<"chinni", "chini", "shakkar">> >>,
       <<"rice", <<"chawal", "chawal">> >>,
       <<"wheat", <<"gehun", "atta">> >>,
       <<"lentil", <<"dal", "daal", "lentils">> >>,
       <<"chickpea", <<"chana", "chhole", "chickpeas">> >>,
       <<"spinach", <<"palak">> >>,
       <<"cauliflower", <<"gobhi", "phoolgobhi">> >>,
       <<"eggplant", <<"baingan", "brinjal", "aubergine">> >>,
       <<"okra", <<"bhindi", "lady finger">> >>,
       <<"turmeric", <<"haldi">> >>,
       <<"cumin", <<"jeera">> >>,
       <<"coriander", <<"dhania", "coriander leaves", "cilantro">> >>,
       <<"mustard", <<"rai", "mustard seeds">> >>,
       <<"chili", <<"mirch", "chilli", "red chili">> >>,
       <<"cardamom", <<"elaichi">> >>,
       <<"cinnamon", <<"dalchini">> >>,
       <<"clove", <<"laung">> >>,
       <<"milk", <<"doodh">> >>,
       <<"butter", <<"makkhan">> >>,
       <<"paneer", <<"cottage cheese">> >>,
       <<"cream", <<"malai">> >>,
       <<"flour", <<"maida">> >>,
       <<"gram flour", <<"besan">> >>,
       <<"fenugreek", <<"methi">> >>,
       <<"asafoetida", <<"hing">> >>,
       <<"tamarind", <<"imli">> >>,
       <<"jaggery", <<"gur">> >> >>

\* lower, strip, drop punctuation, drop the filler words, strip
CleanIngredient(s) ==
    Strip(RemoveWords(filler_words, RemovePunctuation(Strip(Lower(s)))))

\* mutant: "if a in b:" alone, a substring of b
SubstringOnly(a, b) == Contains(a, b)

\* "if a in b:" block: a is a whole word of b, or b ends with " " + a
WholeWordOrSuffix(a, b) ==
    /\ Contains(a, b)
    /\ \/ InSeq(a, Split(b))
       \/ EndsWith(b, a) /\ Len(b) > Len(a) /\ Ch(b, Len(b) - Len(a)) = " "

\* mutant: the table is read from the user side only (the third test is lost)
SynonymMatchUserSideOnly(user_ing, recipe_ing) ==
    \E entry \in SeqToSet(synonyms) :
        \E base_ing \in {entry[1]}, syn_list \in {entry[2]} :
           \/ InSeq(user_ing, syn_list) /\ InSeq(recipe_ing, syn_list)
           \/ user_ing = base_ing /\ InSeq(recipe_ing, syn_list)

\* mutant: the table is read for two aliases only (the tests on the base
\* name are lost)
SynonymMatchAliasesOnly(user_ing, recipe_ing) ==
    \E entry \in SeqToSet(synonyms) :
        InSeq(user_ing, entry[2]) /\ InSeq(recipe_ing, entry[2])

SynonymMatch(user_ing, recipe_ing) ==
    \E entry \in SeqToSet(synonyms) :
        \E base_ing \in {entry[1]}, syn_list \in {entry[2]} :
           \/ InSeq(user_ing, syn_list) /\ InSeq(recipe_ing, syn_list)
           \/ user_ing = base_ing /\ InSeq(recipe_ing, syn_list)
           \/ recipe_ing = base_ing /\ InSeq(user_ing, syn_list)

SignificantCommonWord(user_ing, recipe_ing) ==
    \E w \in SeqToSet(Split(user_ing)) \cap SeqToSet(Split(recipe_ing)) :
        Len(w) > 2 /\ ~InSeq(w, filler_words)

\* mutant: the decision without the test "if user_ing == recipe_ing"
MatchCleanedNoExact(user_ing, recipe_ing) ==
    \/ WholeWordOrSuffix(user_ing, recipe_ing)
    \/ WholeWordOrSuffix(recipe_ing, user_ing)
    \/ SynonymMatch(user_ing, recipe_ing)
    \/ SignificantCommonWord(user_ing, recipe_ing)

\* the decision on the two cleaned strings, in the order of the code; the
\* "milk" and "flour" special cases come last and can only return False
MatchCleaned(user_ing, recipe_ing) ==
    IF user_ing = recipe_ing THEN TRUE
    ELSE IF WholeWordOrSuffix(user_ing, recipe_ing) THEN TRUE
    ELSE IF WholeWordOrSuffix(recipe_ing, user_ing) THEN TRUE
    ELSE IF SynonymMatch(user_ing, recipe_ing) THEN TRUE
    ELSE IF SignificantCommonWord(user_ing, recipe_ing) THEN TRUE
    ELSE IF /\ user_ing = "milk"
            /\ \/ Contains("coconut", recipe_ing) \/ Contains("almond", recipe_ing)
               \/ Contains("soy", recipe_ing) \/ Contains("oat", recipe_ing)
               \/ EndsWith(recipe_ing, " milk") /\ recipe_ing # "milk"
         THEN FALSE
    ELSE IF /\ user_ing = "flour"
            /\ \/ Contains("wheat", recipe_ing) \/ Contains("rice", recipe_ing)
               \/ Contains("gram", recipe_ing) \/ Contains("all purpose", recipe_ing)
         THEN FALSE
    ELSE FALSE

_check_ingredient_match_smart(user, recipe) ==
    IF user = "" \/ recipe = "" THEN FALSE
    ELSE MatchCleaned(CleanIngredient(user), CleanIngredient(recipe))

(***************************************************************************)
(* get_recipe_suggestions: the normalization of the inventory names        *)
(***************************************************************************)
\* the dict ingredient_mappings, each entry <<key, value>>
ingredient_mappings ==
    <<
       <<"milk", "milk">>, <<"yogurt", "yogurt">>, <<"curd", "yogurt">>,
       <<"dahi", "yogurt">>, <<"cheese", "cheese">>, <<"paneer", "paneer">>,
       <<"butter", "butter">>, <<"ghee", "ghee">>, <<"cream", "cream">>,
       <<"egg", "eggs">>, <<"chicken", "chicken">>, <<"mutton", "lamb">>,
       <<"lamb", "lamb">>, <<"fish", "fish">>, <<"prawn", "shrimp">>,
       <<"shrimp", "shrimp">>, <<"onion", "onion">>, <<"garlic", "garlic">>,
       <<"ginger", "ginger">>, <<"tomato", "tomatoes">>, <<"potato", "potatoes">>,
       <<"aloo", "potatoes">>, <<"carrot", "carrots">>, <<"gajar", "carrots">>,
       <<"cauliflower", "cauliflower">>, <<"gobhi", "cauliflower">>, <<"spinach", "spinach">>,
       <<"palak", "spinach">>, <<"eggplant", "eggplant">>, <<"baingan", "eggplant">>,
       <<"brinjal", "eggplant">>, <<"okra", "okra">>, <<"bhindi", "okra">>,
       <<"beans", "green beans">>, <<"cabbage", "cabbage">>, <<"peas", "peas">>,
       <<"matar", "peas">>, <<"rice", "rice">>, <<"chawal", "rice">>,
       <<"wheat", "wheat">>, <<"gehun", "wheat">>, <<"lentil", "lentils">>,
       <<"dal", "lentils">>, <<"chickpea", "chickpeas">>, <<"chana", "chickpeas">>,
       <<"flour", "flour">>, <<"atta", "flour">>, <<"besan", "gram flour">>,
       <<"turmeric", "turmeric">>, <<"haldi", "turmeric">>, <<"cumin", "cumin">>,
       <<"jeera", "cumin">>, <<"coriander", "coriander">>, <<"dhania", "coriander">>,
       <<"mustard", "mustard seeds">>, <<"rai", "mustard seeds">>, <<"chili", "chili powder">>,
       <<"mirch", "chili powder">>, <<"garam masala", "garam masala">>, <<"cardamom", "cardamom">>,
       <<"elaichi", "cardamom">>, <<"cinnamon", "cinnamon">>, <<"dalchini", "cinnamon">>,
       <<"clove", "cloves">>, <<"laung", "cloves">>, <<"pepper", "black pepper">>,
       <<"kali mirch", "black pepper">>, <<"salt", "salt">>, <<"namak", "salt">>,
       <<"sugar", "sugar">>, <<"chinni", "sugar">>, <<"oil", "oil">>,
       <<"tel", "oil">>, <<"lemon", "lemon">>, <<"nimbu", "lemon">>,
       <<"mango", "mango">>, <<"aam", "mango">>, <<"banana", "banana">>,
       <<"kela", "banana">> >>

measurement_words ==
    << "kg", "kgs", "gram", "grams", "g", "liter", "liters", "l", "ml",
       "cup", "cups", "tsp", "tbsp", "oz", "pound", "pounds", "lb", "lbs",
       "piece", "pieces", "pc", "pcs", "slice", "slices", "clove", "cloves",
       "bunch", "bunches", "pack", "packs", "bottle", "bottles", "can", "cans",
       "jar", "jars", "packet", "packets", "box", "boxes" >>

PluralMinLen == 3

\* re.sub(r'\d+\s*', '', s): every digit is dropped, and so is the white space
\* that directly follows a run of digits
RemoveQuantities(s) ==
    Concat([p \in 1..Len(s) |->
              IF \/ IsDigit(Ch(s, p))
                 \/ /\ IsSpace(Ch(s, p))
                    /\ \E j \in 1..(p - 1) :
                          IsDigit(Ch(s, j)) /\ \A k \in (j + 1)..p : IsSpace(Ch(s, k))
              THEN "" ELSE Ch(s, p)])

\* mappings.get(key, key), for a dict listed as pairs
GetOrKey(mappings, key) ==
    IF \E k \in 1..Len(mappings) : mappings[k][1] = key
    THEN mappings[CHOOSE k \in 1..Len(mappings) : mappings[k][1] = key][2]
    ELSE key

\* "if mapped.endswith('s') and len(mapped) > 3: mapped = mapped[:-1]"
StripPlural(mapped) ==
    IF EndsWith(mapped, "s") /\ Len(mapped) > PluralMinLen
    THEN SubSeq(mapped, 1, Len(mapped) - 1)
    ELSE mapped

\* the body of the loop "for ingredient in ingredients", for one name
NormalizeIngredient(ingredient) ==
    LET ingredient_clean ==
            Strip(RemoveWords(measurement_words, RemoveQuantities(Strip(Lower(ingredient)))))
    IN StripPlural(GetOrKey(ingredient_mappings, ingredient_clean))

(***************************************************************************)
(* int((match_score / total_ingredients) * 100): Python divides two ints   *)
(* into an IEEE-754 double (round to nearest, ties to even), multiplies    *)
(* by 100 in double arithmetic and truncates.  Doubles are modelled bit by *)
(* bit: a natural number is a function from bit positions 0..n-1 (weight   *)
(* 2^j) to {0, 1}, so no intermediate value exceeds the range of integers. *)
(***************************************************************************)
\* the bits of a double's significand
MantissaBits == 53

RECURSIVE Pow2(_)
Pow2(n) == IF n = 0 THEN 1 ELSE 2 * Pow2(n - 1)

RECURSIVE Pow2Mod(_, _)
\* 2^n mod t, by squaring
Pow2Mod(n, t) ==
    IF n = 0 THEN 1 % t
    ELSE LET h == Pow2Mod(n \div 2, t)
         IN (h * h * (IF n % 2 = 1 THEN 2 ELSE 1)) % t

BitAt(a, j) == IF j \in DOMAIN a THEN a[j] ELSE 0

\* a + b on bit functions (the carry into a position is looked ahead)
BitsAdd(a, b) ==
    LET n == 1 + Cardinality(DOMAIN a \cup DOMAIN b)
        CarryInto(j) ==
            \E i \in 0..(j - 1) :
                /\ BitAt(a, i) = 1 /\ BitAt(b, i) = 1
                /\ \A l \in (i + 1)..(j - 1) : BitAt(a, l) + BitAt(b, l) >= 1
    IN [j \in 0..(n - 1) |->
          (BitAt(a, j) + BitAt(b, j) + (IF CarryInto(j) THEN 1 ELSE 0)) % 2]

\* a * 2^k
BitsShiftLeft(a, k) ==
    [j \in 0..(Cardinality(DOMAIN a) + k - 1) |-> IF j < k THEN 0 ELSE a[j - k]]

\* a \div 2^k
BitsShiftRight(a, k) ==
    [j \in 0..(Cardinality(DOMAIN a) - k - 1) |-> a[j + k]]

BitsOne == [j \in 0..0 |-> 1]

\* the number of significant bits of a (0 for zero)
BitsLength(a) ==
    IF \A j \in DOMAIN a : a[j] = 0 THEN 0
    ELSE 1 + CHOOSE j \in DOMAIN a : a[j] = 1 /\ \A l \in DOMAIN a : l > j => a[l] = 0

RECURSIVE BitsValue(_, _)
\* the integer a stands for, from bit position j upwards (for small values)
BitsValue(a, j) == IF j \notin DOMAIN a THEN 0 ELSE a[j] + 2 * BitsValue(a, j + 1)

\* a \div 2^d rounded to nearest, ties to even
BitsRoundShift(a, d) ==
    IF d <= 0 THEN a
    ELSE LET half == BitAt(a, d - 1) = 1
             sticky == \E j \in 0..(d - 2) : BitAt(a, j) = 1
             odd == BitAt(a, d) = 1
             kept == BitsShiftRight(a, d)
         IN IF half /\ (sticky \/ odd) THEN BitsAdd(kept, BitsOne) ELSE kept

\* the exponent of m / t, for 1 <= m <= t: the least e with m * 2^e >= t
QuotientExponent(m, t) ==
    CHOOSE e \in 0..30 : m * Pow2(e) >= t /\ (e = 0 \/ m * Pow2(e - 1) < t)

\* bit i (from the leading one) of m * 2^k / t, by long division
QuotientBit(m, t, k, i) ==
    IF i = 0 THEN 1 ELSE (2 * ((m * Pow2Mod(k + i - 1, t)) % t)) \div t

\* the 53 bits 'exact' of a quotient by t that left the remainder 'rest',
\* rounded to nearest, ties to even
RoundQuotient(exact, rest, t) ==
    IF 2 * rest > t \/ (2 * rest = t /\ exact[0] = 1) THEN BitsAdd(exact, BitsOne)
    ELSE exact

\* the significand of the double nearest to m / t, given its exponent k
Significand(m, t, k) ==
    RoundQuotient([j \in 0..(MantissaBits - 1) |-> QuotientBit(m, t, k, MantissaBits - 1 - j)],
                  (m * Pow2Mod(k + MantissaBits - 1, t)) % t, t)

\* the double nearest to m / t, for 1 <= m <= t: <<significand, k>>, standing
\* for significand * 2^(-k - 52)
WithExponent(m, t, k) == <<Significand(m, t, k), k>>

DoubleDivide(m, t) == WithExponent(m, t, QuotientExponent(m, t))

\* a * 100 on bit functions: 100 = 64 + 32 + 4
BitsTimesHundred(a) ==
    BitsAdd(BitsAdd(BitsShiftLeft(a, 6), BitsShiftLeft(a, 5)), BitsShiftLeft(a, 2))

\* int() of the double nearest to product * 2^(-k - 52), where the product
\* has d bits more than a significand holds: the double is
\* rounded * 2^(d - k - 52), and int() drops its fraction
TruncateRounded(product, d, k) ==
    BitsValue(BitsRoundShift(product, d), k + (MantissaBits - 1) - d)

TruncateProduct(product, k) ==
    TruncateRounded(product, BitsLength(product) - MantissaBits, k)

\* int(q * 100) for the double q
TimesHundredTruncated(q) == TruncateProduct(BitsTimesHundred(q[1]), q[2])

\* int((m / t) * 100) for 0 <= m <= t, t > 0
IntPercent(m, t) == IF m = 0 THEN 0 ELSE TimesHundredTruncated(DoubleDivide(m, t))

(***************************************************************************)
(* Helpers on lists.                                                       *)
(***************************************************************************)
\* the list whose elements are those of the function on 1..n, evaluated once
List(elements) == SubSeq(elements, 1, Len(elements))

\* seq[:n]
Take(seq, n) == SubSeq(seq, 1, IF n < Len(seq) THEN n ELSE Len(seq))

\* the elements of seq at the positions 'kept', in the order of seq
Keep(seq, kept) == List([k \in 1..Cardinality(kept) |-> seq[NthSmallest(kept, k)]])

Min(a, b) == IF a < b THEN a ELSE b

\* every list that list(set(...)) can be: the set in any order
Orderings(S) ==
    {f \in [1..Cardinality(S) -> S] : \A i, j \in 1..Cardinality(S) : i # j => f[i] # f[j]}

\* sep.join(parts)
Join(parts, sep) ==
    Concat([i \in 1..(2 * Len(parts) - 1) |->
              IF i % 2 = 1 THEN parts[(i + 1) \div 2] ELSE sep])

\* the characters of the inputs in code point order, for the comparison of str
CodePoints ==
    " !\"#$%&'()*+,-./0123456789:;<=>?@ABCDEFGHIJKLMNOPQRSTUVWXYZ[\\]^_abcdefghijklmnopqrstuvwxyz{|}~"

CodePoint(c) == CHOOSE i \in 1..Len(CodePoints) : Ch(CodePoints, i) = c

\* a < b for str
StrLess(a, b) ==
    LET shorter == IF Len(a) < Len(b) THEN Len(a) ELSE Len(b)
        differ == {i \in 1..shorter : Ch(a, i) # Ch(b, i)}
    IN IF differ = {} THEN Len(a) < Len(b)
       ELSE LET first == CHOOSE i \in differ : \A j \in differ : i <= j
            IN CodePoint(Ch(a, first)) < CodePoint(Ch(b, first))

\* the positions of the strings that sorted() puts before strings[i]
StringsBefore(strings, i) ==
    {j \in 1..Len(strings) :
        StrLess(strings[j], strings[i]) \/ (strings[j] = strings[i] /\ j < i)}

\* sorted(strings)
SortedStrings(strings) ==
    List([k \in 1..Len(strings) |->
          strings[CHOOSE i \in 1..Len(strings) : Cardinality(StringsBefore(strings, i)) = k - 1]])

\* s.replace(' ', '_')
ReplaceSpaces(s) ==
    IF \A i \in 1..Len(s) : Ch(s, i) # " " THEN s
    ELSE Concat([i \in 1..Len(s) |-> IF Ch(s, i) = " " THEN "_" ELSE Ch(s, i)])

(***************************************************************************)
(* Data: the static catalog, and what the Spoonacular service can answer.  *)
(* Only the fields the matching, the formatting of ingredients and the     *)
(* ranking read are kept (amounts, units, images and instructions are not).*)
(***************************************************************************)
INDIAN_RECIPES ==
    << [id |-> "indian_1", title |-> "Vegetable Pulao",
        ingredients |-> << [name |-> "Basmati Rice"], [name |-> "Mixed Vegetables"],
                           [name |-> "Onion"], [name |-> "Ginger Garlic Paste"],
                           [name |-> "Garam Masala"], [name |-> "Cumin Seeds"],
                           [name |-> "Oil/Ghee"], [name |-> "Salt"] >>],
       [id |-> "indian_2", title |-> "Chana Masala",
        ingredients |-> << [name |-> "Chickpeas"], [name |-> "Onion"],
                           [name |-> "Tomatoes"], [name |-> "Ginger Garlic Paste"],
                           [name |-> "Chana Masala Powder"], [name |-> "Turmeric Powder"],
                           [name |-> "Coriander Powder"], [name |-> "Oil"] >>] >>

\* the 'results' a complexSearch for cuisine=indian can return, most popular first
SpoonacularIndian ==
    << [id |-> 101, title |-> "Paneer Tikka", cuisines |-> <<"Indian">>,
        extendedIngredients |-> << [name |-> "paneer", nameClean |-> "paneer"],
                                   [name |-> "plain yogurt", nameClean |-> "yogurt"] >>],
       [id |-> 102, title |-> "Onion Bhaji", cuisines |-> <<"Indian">>,
        extendedIngredients |-> << [name |-> "onions", nameClean |-> "onion"],
                                   [name |-> "gram flour", nameClean |-> "gram flour"] >>],
       [id |-> 103, title |-> "Tomato Chutney", cuisines |-> <<"Indian", "Asian">>,
        extendedIngredients |-> << [name |-> "tomatoes", nameClean |-> "tomato"],
                                   [name |-> "garam masala", nameClean |-> "garam masala"] >>],
       [id |-> 104, title |-> "Masala Paneer", cuisines |-> <<"Indian">>,
        extendedIngredients |-> << [name |-> "Paneer, cubed", nameClean |-> "paneer"],
                                   [name |-> "turmeric powder", nameClean |-> "turmeric"] >>],
       [id |-> 105, title |-> "Kheer", cuisines |-> <<"Indian">>,
        extendedIngredients |-> << [name |-> "milk", nameClean |-> "milk"],
                                   [name |-> "rice", nameClean |-> "rice"] >>] >>

\* the recipes findByIngredients can return (and informationBulk details), in
\* the order of the service's ranking: one without ingredients, one with six,
\* one that the cuisine search returns too, one whose ingredient has no
\* 'nameClean'
SpoonacularGeneral ==
    << [id |-> 201, title |-> "Boiled Water", cuisines |-> <<>>,
        extendedIngredients |-> <<>>],
       [id |-> 202, title |-> "Paneer Soup", cuisines |-> <<"European">>,
        extendedIngredients |-> << [name |-> "paneer", nameClean |-> "paneer"],
                                   [name |-> "salt", nameClean |-> "salt"],
                                   [name |-> "heavy cream", nameClean |-> "cream"],
                                   [name |-> "black pepper", nameClean |-> "pepper"],
                                   [name |-> "basil", nameClean |-> ""],
                                   [name |-> "stock", nameClean |-> "stock"] >>],
       [id |-> 101, title |-> "Paneer Tikka", cuisines |-> <<"Indian">>,
        extendedIngredients |-> << [name |-> "paneer", nameClean |-> "paneer"],
                                   [name |-> "plain yogurt", nameClean |-> "yogurt"] >>],
       [id |-> 204, title |-> "Sugar Syrup", cuisines |-> <<>>,
        extendedIngredients |-> << [name |-> "sugar"] >>] >>

\* the names a user's FoodItems can have
ItemNames == {"onion", "tomato", "paneer"}

\* larger inventories, and inventories of names that the normalization empties
LargeInventories ==
    { {"paneer", "milk", "banana", "mango", "lemon", "salt"},
      {"paneer", "milk", "banana", "mango"},
      {"paneer", "milk", "banana", "lemon"},
      {"2 kg"}, {"2 kg", "cloves"}, {"500 g", "paneer"} }

(***************************************************************************)
(* The normalization, the matcher and the percentage are computed once on  *)
(* the values that the data above can give them, and looked up afterwards; *)
(* on any other value they are computed as above.                          *)
(***************************************************************************)
NormalizedNames ==
    {<<name, NormalizeIngredient(Lower(name))>> : name \in ItemNames \cup UNION LargeInventories}

Normalized(name) ==
    IF \E known \in NormalizedNames : known[1] = name
    THEN (CHOOSE known \in NormalizedNames : known[1] = name)[2]
    ELSE NormalizeIngredient(Lower(name))

KnownUserIngredients ==
    {known[2] : known \in NormalizedNames} \cup {"garam masala", "turmeric", "cumin"}

KnownRecipeIngredients ==
    LET StaticNames == UNION {{Lower(r.ingredients[i].name) : i \in 1..Len(r.ingredients)} :
                                 r \in SeqToSet(INDIAN_RECIPES)}
        NamesOf(ing) == {Lower(ing.name)} \cup
                        (IF "nameClean" \in DOMAIN ing THEN {Lower(ing.nameClean)} ELSE {})
        ApiNames == UNION {UNION {NamesOf(r.extendedIngredients[i]) :
                                     i \in 1..Len(r.extendedIngredients)} :
                              r \in SeqToSet(SpoonacularIndian) \cup SeqToSet(SpoonacularGeneral)}
    IN StaticNames \cup ApiNames

\* the known ingredients, pair by pair, with what the matcher returns on them
KnownMatches ==
    {<<pair[1], pair[2], _check_ingredient_match_smart(pair[1], pair[2])>> :
        pair \in KnownUserIngredients \X KnownRecipeIngredients}

\* what the matcher returns, looked up in the table when the pair is there
LookUpMatch(table, user_ing, recipe_ing) ==
    IF <<user_ing, recipe_ing, TRUE>> \in table THEN TRUE
    ELSE IF <<user_ing, recipe_ing, FALSE>> \in table THEN FALSE
    ELSE _check_ingredient_match_smart(user_ing, recipe_ing)

IngredientMatch(user_ing, recipe_ing) == LookUpMatch(KnownMatches, user_ing, recipe_ing)

\* the longest list of ingredients of a recipe of the data
KnownTotal == 8

KnownPercents ==
    {<<pair[1], pair[2], IntPercent(pair[1], pair[2])>> :
        pair \in {q \in (0..KnownTotal) \X (1..KnownTotal) : q[1] <= q[2]}}

MatchPercentage(match_score, total_ingredients) ==
    IF match_score \in 0..total_ingredients /\ total_ingredients \in 1..KnownTotal
    THEN (CHOOSE known \in KnownPercents :
             known[1] = match_score /\ known[2] = total_ingredients)[3]
    ELSE IntPercent(match_score, total_ingredients)

(***************************************************************************)
(* get_recipes_by_ingredients: formatting, fallbacks, responses, cache keys*)
(***************************************************************************)
RequestedNumber == 15       \* get_recipe_suggestions asks for number=15
SearchedIngredients == 10   \* unique_ingredients[:10]
KeyIngredients == 3         \* ingredients[:3] make the cache keys
FallbackIngredients == 5    \* ingredients[:5] are matched in the filters
IndianNumber == 6           \* min(number, 6) recipes of the cuisine search
IndianEnough == 4           \* min(number, 4) of them are enough
ErrorFallbackNumber == 8    \* min(number, 8) static recipes after an exception
MatchThreshold == 20        \* match_percentage >= 20
TopFiltered == 10           \* filtered_recipes[:10]
TopUnfiltered == 8          \* scored_recipes[:8]

\* no value: a local not assigned yet
None == [none |-> TRUE]

\* the cache key of get_recipes_by_ingredients
CacheKey(ingredients, number) ==
    "spoonacular_recipes_" \o
        Join(SortedStrings(List([i \in 1..Min(Len(ingredients), KeyIngredients) |->
                                    ReplaceSpaces(Lower(ingredients[i]))])), "_") \o
        "_" \o ToString(number)

\* the cache key of _search_indian_recipes_by_ingredients
IndianCacheKey(ingredients) ==
    "spoonacular_indian_" \o
        Join([i \in 1..Min(Len(ingredients), KeyIngredients) |->
                ReplaceSpaces(Lower(ingredients[i]))], "_")

\* the cache key of _get_bulk_recipe_info
BulkCacheKey(ids) ==
    "spoonacular_bulk_" \o Join([i \in 1..Len(ids) |-> ToString(ids[i])], "_")

\* cache.set(key, value, ttl)
CacheSet(c, key, value) ==
    [k \in DOMAIN c \cup {key} |-> IF k = key THEN value ELSE c[k]]

\* the filter of the cuisine search: some of the first five user ingredients
\* matches the name or the (non-empty) nameClean of some ingredient of the recipe
UsesUserIngredient(recipe, ingredients) ==
    \E j \in 1..Min(Len(ingredients), FallbackIngredients) :
        \E i \in 1..Len(recipe.extendedIngredients) :
            LET ing == recipe.extendedIngredients[i]
            IN \/ IngredientMatch(Lower(ingredients[j]), Lower(ing.name))
               \/ /\ "nameClean" \in DOMAIN ing
                  /\ ing.nameClean # ""
                  /\ IngredientMatch(Lower(ingredients[j]), Lower(ing.nameClean))

\* filtered_recipes[:number] of the cuisine search
FilterIndian(all_recipes, ingredients, number) ==
    Take(Keep(all_recipes, {i \in 1..Len(all_recipes) :
                               UsesUserIngredient(all_recipes[i], ingredients)}), number)

\* the recipes get_recipes_by_ingredients formats after the general search:
\* those of Indian cuisine first, then the others, then the cuisine search's
CombineRecipes(detailed_recipes, indian) ==
    LET IsIndian(r) == \E i \in 1..Len(r.cuisines) : Lower(r.cuisines[i]) = "indian"
        indian_recipes_in_results == SelectSeq(detailed_recipes, IsIndian)
        NotIndianResult(r) ==
            \A i \in 1..Len(indian_recipes_in_results) : indian_recipes_in_results[i] # r
        other_recipes == SelectSeq(detailed_recipes, NotIndianResult)
    IN indian_recipes_in_results \o other_recipes \o indian

\* _format_recipe_spoonacular raises KeyError: ingredient['nameClean'] or
\* ingredient['name'] on an ingredient without the key it reads
FormatRaises(recipe) ==
    \E i \in 1..Len(recipe.extendedIngredients) :
        LET ingredient == recipe.extendedIngredients[i]
        IN \/ "nameClean" \notin DOMAIN ingredient
           \/ ingredient.nameClean = "" /\ "name" \notin DOMAIN ingredient

_format_recipe_spoonacular(recipe) ==
    [id |-> recipe.id,
     title |-> recipe.title,
     ingredients |->
        List([i \in 1..Len(recipe.extendedIngredients) |->
           LET ingredient == recipe.extendedIngredients[i]
           IN [name |-> IF ingredient.nameClean # "" THEN ingredient.nameClean
                        ELSE ingredient.name,
               nameClean |-> Lower(ingredient.nameClean)]]),
     api |-> "spoonacular",
     is_indian |-> \E i \in 1..Len(recipe.cuisines) :
                      Contains("indian", Lower(recipe.cuisines[i]))]

\* [_format_recipe_spoonacular(recipe) for recipe in recipes]
FormatAll(recipes) ==
    IF \E i \in 1..Len(recipes) : FormatRaises(recipes[i])
    THEN [raised |-> TRUE, recipes |-> <<>>]
    ELSE [raised |-> FALSE,
          recipes |-> List([i \in 1..Len(recipes) |-> _format_recipe_spoonacular(recipes[i])])]

\* a static recipe as a formatted recipe
FormatStatic(indian_recipe, api) ==
    [id |-> indian_recipe.id,
     title |-> indian_recipe.title,
     ingredients |-> List([i \in 1..Len(indian_recipe.ingredients) |->
                        [name |-> indian_recipe.ingredients[i].name]]),
     api |-> api,
     is_indian |-> TRUE]

\* user_has_any of the static fallback
UserHasAny(indian_recipe, ingredients) ==
    \E j \in 1..Min(Len(ingredients), FallbackIngredients) :
        \E i \in 1..Len(indian_recipe.ingredients) :
            IngredientMatch(ingredients[j], Lower(indian_recipe.ingredients[i].name))

\* the static recipes as formatted recipes
FormatStaticAll(recipes, api) ==
    List([i \in 1..Len(recipes) |-> FormatStatic(recipes[i], api)])

\* the static recipes of which the user has some ingredient
UserHasSome(recipes, ingredients) ==
    Keep(recipes, {i \in 1..Len(recipes) : UserHasAny(recipes[i], ingredients)})

\* the static fallback: the first 'number' static recipes of which the user has
\* some ingredient
StaticFallback(ingredients, number) ==
    FormatStaticAll(UserHasSome(Take(INDIAN_RECIPES, number), ingredients),
                    "spoonacular_fallback")

\* the response of the try block
Response(formatted_recipes, ingredients) ==
    [success |-> TRUE,
     recipes |-> formatted_recipes,
     total_recipes |-> Len(formatted_recipes),
     ingredients_searched |-> Take(ingredients, KeyIngredients),
     cached |-> FALSE,
     load_time |-> "fresh",
     api |-> "spoonacular"]

\* the response of the except block on the recipes it formatted
ErrorResponse(formatted_recipes, ingredients) ==
    [success |-> TRUE,
     recipes |-> formatted_recipes,
     total_recipes |-> Len(formatted_recipes),
     ingredients_searched |-> Take(ingredients, KeyIngredients),
     cached |-> FALSE,
     load_time |-> "error_fallback",
     api |-> "spoonacular_fallback"]

\* the response of the except block: static recipes, whatever the user has
ErrorFallback(ingredients, number) ==
    ErrorResponse(FormatStaticAll(Take(INDIAN_RECIPES, Min(number, ErrorFallbackNumber)),
                                  "spoonacular_fallback_error"), ingredients)

\* formatted_recipes after "if not formatted_recipes and INDIAN_RECIPES"
WithFallback(formatted_recipes, ingredients, number) ==
    IF formatted_recipes = <<>> /\ INDIAN_RECIPES # <<>>
    THEN StaticFallback(ingredients, number)
    ELSE formatted_recipes

\* cache.set(cache_key, response, 21600); return response
Stored(response, key, c) == [data |-> response, cache |-> CacheSet(c, key, response)]

\* the same, were the answer of the except block cached too
CompletedStoringFallback(formatted, ingredients, number, c) ==
    IF formatted.raised
    THEN Stored(ErrorFallback(ingredients, number), CacheKey(ingredients, number), c)
    ELSE Stored(Response(WithFallback(formatted.recipes, ingredients, number), ingredients),
                CacheKey(ingredients, number), c)

\* the end of get_recipes_by_ingredients on what the formatting gave
Completed(formatted, ingredients, number, c) ==
    IF formatted.raised
    THEN [data |-> ErrorFallback(ingredients, number), cache |-> c]
    ELSE Stored(Response(WithFallback(formatted.recipes, ingredients, number), ingredients),
                CacheKey(ingredients, number), c)

\* the end of get_recipes_by_ingredients once the recipes to format are known:
\* format them, fall back on the static recipes when none is left, answer and
\* cache the answer; an exception answers the unfiltered static recipes and
\* caches nothing
Complete(recipes, ingredients, number, c) ==
    Completed(FormatAll(recipes), ingredients, number, c)

(***************************************************************************)
(* get_recipe_suggestions: the ingredients searched, and the ranking.      *)
(***************************************************************************)
\* the normalized names of the inventory (the set that unique_ingredients lists)
NormalizedIngredients(items) ==
    {Normalized(name) : name \in {item \in items : item # ""}}

\* common Indian ingredients appended when onion, tomato, garlic or ginger is there
common_indian_ingredients == <<"onion", "tomato", "garlic", "ginger">>

basic_indian == <<"garam masala", "turmeric", "cumin">>

AddBasics(unique_ingredients) ==
    IF \E i \in 1..Len(common_indian_ingredients) :
           InSeq(common_indian_ingredients[i], unique_ingredients)
    THEN unique_ingredients \o
            SelectSeq(basic_indian, LAMBDA basic : ~InSeq(basic, unique_ingredients))
    ELSE unique_ingredients

\* search_ingredients, given one order of the set of normalized names
SearchIngredients(unique_ingredients) == Take(AddBasics(unique_ingredients), SearchedIngredients)

\* the answer for an inventory without ingredients
NoIngredients ==
    [error |-> "No ingredients in inventory", recipes |-> <<>>, cached |-> TRUE,
     api |-> "spoonacular"]

\* recipe_ingredients of the ranking: the lowercased nameClean, or name, of the
\* ingredients that have one
RecipeIngredientNames(recipe) ==
    LET Named(ing) == \/ "nameClean" \in DOMAIN ing /\ ing.nameClean # ""
                      \/ "name" \in DOMAIN ing /\ ing.name # ""
        NameOf(ing) == IF "nameClean" \in DOMAIN ing THEN ing.nameClean
                       ELSE IF "name" \in DOMAIN ing THEN ing.name ELSE ""
        named == SelectSeq(recipe.ingredients, Named)
    IN List([i \in 1..Len(named) |-> Lower(NameOf(named[i]))])

\* match_score: the recipe ingredients that some searched ingredient matches
MatchingIngredients(recipe_ingredients, ingredients) ==
    Cardinality({i \in 1..Len(recipe_ingredients) :
                    \E j \in 1..Len(ingredients) :
                        IngredientMatch(ingredients[j], recipe_ingredients[i])})

\* the recipe with the fields of its score
WithScore(recipe, score, total) ==
    [id |-> recipe.id, title |-> recipe.title, ingredients |-> recipe.ingredients,
     api |-> recipe.api, is_indian |-> recipe.is_indian,
     match_percentage |-> MatchPercentage(score, total),
     matching_ingredients |-> score,
     total_recipe_ingredients |-> total]

\* the recipe scored on the names of its ingredients
ScoredOn(recipe, recipe_ingredients, ingredients) ==
    WithScore(recipe, MatchingIngredients(recipe_ingredients, ingredients),
              Len(recipe_ingredients))

\* the recipe with its score
Scored(recipe, ingredients) ==
    ScoredOn(recipe, RecipeIngredientNames(recipe), ingredients)

\* the recipes, each with its score
ScoreAll(recipes, ingredients) ==
    List([k \in 1..Len(recipes) |-> Scored(recipes[k], ingredients)])

\* scored_recipes before the sort: only a recipe with ingredients is scored
\* and appended
ScoreRecipes(recipes, ingredients) ==
    ScoreAll(Keep(recipes, {i \in 1..Len(recipes) :
                               Len(RecipeIngredientNames(recipes[i])) > 0}), ingredients)

\* list.sort(key=match_percentage, reverse=True) that forgets the order of the
\* candidates among equal percentages (it reverses it)
SortByMatchPercentageUnstable(scored_recipes) ==
    LET Before(i) == {j \in 1..Len(scored_recipes) :
                        \/ scored_recipes[j].match_percentage > scored_recipes[i].match_percentage
                        \/ /\ scored_recipes[j].match_percentage = scored_recipes[i].match_percentage
                           /\ j > i}
    IN List([k \in 1..Len(scored_recipes) |->
          scored_recipes[CHOOSE i \in 1..Len(scored_recipes) : Cardinality(Before(i)) = k - 1]])

\* scored_recipes.sort(key=match_percentage, reverse=True): the sort is stable,
\* reverse keeps the order of the elements whose keys are equal
SortByMatchPercentage(scored_recipes) ==
    LET Before(i) == {j \in 1..Len(scored_recipes) :
                        \/ scored_recipes[j].match_percentage > scored_recipes[i].match_percentage
                        \/ /\ scored_recipes[j].match_percentage = scored_recipes[i].match_percentage
                           /\ j < i}
    IN List([k \in 1..Len(scored_recipes) |->
          scored_recipes[CHOOSE i \in 1..Len(scored_recipes) : Cardinality(Before(i)) = k - 1]])

\* the choice between the recipes above the threshold and the top of all that
\* always takes the top of all
SelectRecipesUnfiltered(scored_recipes) == Take(scored_recipes, TopUnfiltered)

\* filtered_recipes[:10] if there are filtered recipes, else scored_recipes[:8]
SelectRecipes(scored_recipes) ==
    LET filtered_recipes ==
            SelectSeq(scored_recipes, LAMBDA r : r.match_percentage >= MatchThreshold)
    IN IF filtered_recipes # <<>> THEN Take(filtered_recipes, TopFiltered)
       ELSE Take(scored_recipes, TopUnfiltered)

\* the ranking of get_recipe_suggestions on the answer of
\* get_recipes_by_ingredients
RankRecipeData(data, ingredients) ==
    IF data.recipes # <<>>
    THEN [data EXCEPT !.recipes =
            SelectRecipes(SortByMatchPercentage(ScoreRecipes(data.recipes, ingredients)))]
    ELSE data

(***************************************************************************)
(* State.                                                                  *)
(***************************************************************************)
VARIABLES
    pc,                 \* where the current call or request stands
    user_ingredient,    \* the arguments of a call of the matcher ...
    recipe_ingredient,
    match_result,       \* ... what it returned ...
    swapped_result,     \* ... and what it returned with the arguments swapped
    inventory,          \* the names of the user's FoodItems
    search_ingredients, \* search_ingredients of the current request
    cache,              \* the Django cache: key -> value
    indian_recipes,     \* what the cuisine search returned to the current request
    recipe_ids,         \* the ids the general search returned to it
    recipe_data,        \* what get_recipes_by_ingredients returned to it
    result,             \* what get_recipe_suggestions returned
    requests,           \* the requests served
    match_score,        \* the scoring of one recipe: the ingredients matched ...
    total_ingredients,  \* ... of so many ...
    match_percentage,   \* ... and the percentage computed
    raw_name,           \* a name given to the normalization on its own ...
    normalized,         \* ... what the normalization made of it ...
    renormalized,       \* ... and what it made of its own output
    food_items,         \* the FoodItem table: the row of each id given so far
    today,              \* timezone.now().date(), in days
    request,            \* the last request to a view of the inventory ...
    response            \* ... and the answer to it

matcherVars == <<user_ingredient, recipe_ingredient, match_result, swapped_result>>

requestVars == <<inventory, search_ingredients, cache, indian_recipes, recipe_ids,
                 recipe_data, result, requests>>

scoreVars == <<match_score, total_ingredients, match_percentage>>

normVars == <<raw_name, normalized, renormalized>>

viewVars == <<food_items, today, request, response>>

vars == <<pc, matcherVars, requestVars, scoreVars, normVars, viewVars>>

\* the empty cache
EmptyCache == [key \in {} |-> None]

\* the matcher is not being called on its own
MatcherIdle ==
    /\ user_ingredient = ""
    /\ recipe_ingredient = ""
    /\ match_result = FALSE
    /\ swapped_result = FALSE

\* no recipe is being scored on its own
ScoreIdle ==
    /\ match_score = 0
    /\ total_ingredients = 0
    /\ match_percentage = 0

\* no name is being normalized on its own
NormIdle ==
    /\ raw_name = ""
    /\ normalized = ""
    /\ renormalized = ""

\* no view of the inventory is being requested
ViewsIdle ==
    /\ food_items = <<>>
    /\ today = 1
    /\ request = None
    /\ response = None

\* no request is being served
RequestsIdle ==
    /\ inventory = {}
    /\ search_ingredients = <<>>
    /\ cache = EmptyCache
    /\ indian_recipes = <<>>
    /\ recipe_ids = <<>>
    /\ recipe_data = None
    /\ result = None
    /\ requests = 0

(***************************************************************************)
(* The recipe suggestions of one user: requests of the 'recipes' view on   *)
(* an inventory, served from the cache, the Spoonacular service and the    *)
(* static catalog.  A request is cut where it waits for the service.       *)
(***************************************************************************)
MaxRequests == 2         \* the requests served in a behaviour
MaxIndianResults == 4    \* the longest answer of the cuisine search
MaxGeneralResults == 4   \* the longest answer of the general search

Init ==
    /\ pc = "idle"
    /\ MatcherIdle
    /\ ScoreIdle
    /\ NormIdle
    /\ ViewsIdle
    /\ inventory \in SUBSET ItemNames
    /\ search_ingredients = <<>>
    /\ cache = EmptyCache
    /\ indian_recipes = <<>>
    /\ recipe_ids = <<>>
    /\ recipe_data = None
    /\ result = None
    /\ requests = 0

\* get_recipe_suggestions up to the cache lookup of get_recipes_by_ingredients:
\* an empty search answers at once, a cached answer goes to the ranking
GetRecipeSuggestions ==
    /\ pc \in {"idle", "done"}
    /\ requests < MaxRequests
    /\ \E unique_ingredients \in Orderings(NormalizedIngredients(inventory)) :
       \E ingredients \in {SearchIngredients(unique_ingredients)} :
       \E cache_key \in {CacheKey(ingredients, RequestedNumber)} :
          /\ search_ingredients' = ingredients
          /\ IF ingredients = <<>>
             THEN /\ result' = NoIngredients
                  /\ recipe_data' = None
                  /\ requests' = requests + 1
                  /\ pc' = "done"
             ELSE /\ result' = None
                  /\ recipe_data' = IF cache_key \in DOMAIN cache
                                    THEN [cache[cache_key] EXCEPT !.cached = TRUE]
                                    ELSE None
                  /\ requests' = requests
                  /\ pc' = IF cache_key \in DOMAIN cache THEN "rank" ELSE "indian"
    /\ indian_recipes' = <<>>
    /\ recipe_ids' = <<>>
    /\ UNCHANGED <<inventory, cache, matcherVars, scoreVars, normVars, viewVars>>

\* _search_indian_recipes_by_ingredients and what follows it: with enough
\* recipes of the cuisine search the answer is made of them, else the general
\* search is called
SearchIndianRecipes ==
    /\ pc = "indian"
    /\ \E ok \in BOOLEAN :
       \E cache_key \in {IndianCacheKey(search_ingredients)} :
       \E hit \in {(cache_key \in DOMAIN cache) /\ (cache[cache_key] # <<>>)} :
       \E found \in {IF hit THEN cache[cache_key]
                     ELSE IF ok
                     THEN FilterIndian(Take(SpoonacularIndian, MaxIndianResults),
                                       search_ingredients, Min(RequestedNumber, IndianNumber))
                     ELSE <<>>} :
       \E searched \in {IF ~hit /\ ok THEN CacheSet(cache, cache_key, found) ELSE cache} :
          /\ indian_recipes' = found
          /\ IF Len(found) >= Min(RequestedNumber, IndianEnough)
             THEN \E completed \in {Complete(Take(found, RequestedNumber), search_ingredients,
                                             RequestedNumber, searched)} :
                     /\ recipe_data' = completed.data
                     /\ cache' = completed.cache
                     /\ pc' = "rank"
             ELSE /\ recipe_data' = recipe_data
                  /\ cache' = searched
                  /\ pc' = "general"
    /\ UNCHANGED <<inventory, search_ingredients, recipe_ids, result, requests, matcherVars, scoreVars, normVars, viewVars>>

\* the findByIngredients request: it raises, or answers another status than
\* 200, or answers recipes, whose ids go to the bulk request
FindByIngredients ==
    /\ pc = "general"
    /\ \E outcome \in {"raise", "status", "ok"}, n \in 0..MaxGeneralResults :
       \E recipes_data \in {Take(SpoonacularGeneral, n)} :
       \E ids \in {[i \in 1..Len(Take(recipes_data, RequestedNumber)) |-> recipes_data[i].id]} :
          IF outcome = "raise"
          THEN /\ recipe_data' = ErrorFallback(search_ingredients, RequestedNumber)
               /\ UNCHANGED <<cache, recipe_ids>>
               /\ pc' = "rank"
          ELSE IF outcome = "status" \/ ids = <<>>
          THEN \E completed \in {Complete(<<>>, search_ingredients, RequestedNumber, cache)} :
                  /\ recipe_data' = completed.data
                  /\ cache' = completed.cache
                  /\ UNCHANGED recipe_ids
                  /\ pc' = "rank"
          ELSE /\ recipe_ids' = ids
               /\ UNCHANGED <<cache, recipe_data>>
               /\ pc' = "bulk"
    /\ UNCHANGED <<inventory, search_ingredients, indian_recipes, result, requests, matcherVars, scoreVars, normVars, viewVars>>

\* the details of the recipes whose ids were requested, in that order
RecipeInformation(ids) ==
    List([i \in 1..Len(ids) |->
       SpoonacularGeneral[CHOOSE k \in 1..Len(SpoonacularGeneral) :
                             SpoonacularGeneral[k].id = ids[i]]])

\* _get_bulk_recipe_info and the rest of get_recipes_by_ingredients
GetBulkRecipeInfo ==
    /\ pc = "bulk"
    /\ \E ok \in BOOLEAN :
       \E cache_key \in {BulkCacheKey(recipe_ids)} :
       \E hit \in {(cache_key \in DOMAIN cache) /\ (cache[cache_key] # <<>>)} :
       \E detailed_recipes \in {IF hit THEN cache[cache_key]
                                ELSE IF ok THEN RecipeInformation(recipe_ids)
                                ELSE <<>>} :
       \E fetched \in {IF ~hit /\ ok THEN CacheSet(cache, cache_key, detailed_recipes)
                       ELSE cache} :
       \E completed \in {Complete(Take(CombineRecipes(detailed_recipes, indian_recipes),
                                       RequestedNumber),
                                  search_ingredients, RequestedNumber, fetched)} :
          /\ recipe_data' = completed.data
          /\ cache' = completed.cache
    /\ pc' = "rank"
    /\ UNCHANGED <<inventory, search_ingredients, indian_recipes, recipe_ids, result,
                   requests, matcherVars, scoreVars, normVars, viewVars>>

\* the ranking, and the answer of get_recipe_suggestions
RankRecipes ==
    /\ pc = "rank"
    /\ result' = RankRecipeData(recipe_data, search_ingredients)
    /\ requests' = requests + 1
    /\ pc' = "done"
    /\ UNCHANGED <<inventory, search_ingredients, cache, indian_recipes, recipe_ids,
                   recipe_data, matcherVars, scoreVars, normVars, viewVars>>

Next ==
    \/ GetRecipeSuggestions
    \/ SearchIndianRecipes
    \/ FindByIngredients
    \/ GetBulkRecipeInfo
    \/ RankRecipes

Spec == Init /\ [][Next]_vars

(***************************************************************************)
(* The same requests on larger inventories, whose ingredients the code     *)
(* cuts to the first three, five or ten, and on names that the             *)
(* normalization empties.                                                  *)
(***************************************************************************)
LargeInit ==
    /\ pc = "idle"
    /\ MatcherIdle
    /\ ScoreIdle
    /\ NormIdle
    /\ ViewsIdle
    /\ inventory \in LargeInventories
    /\ search_ingredients = <<>>
    /\ cache = EmptyCache
    /\ indian_recipes = <<>>
    /\ recipe_ids = <<>>
    /\ recipe_data = None
    /\ result = None
    /\ requests = MaxRequests - 1

LargeSpec == LargeInit /\ [][Next]_vars

\* the calls of get_recipes_by_ingredients that these inventories can lead to,
\* one for each order of the set of normalized names: the ingredients passed,
\* the cache key, and what get_recipe_suggestions returns when the cuisine
\* search fails and the general search answers no recipe
LargeCalls ==
    UNION {{[inventory |-> items,
             ingredients |-> SearchIngredients(order),
             key |-> CacheKey(SearchIngredients(order), RequestedNumber),
             recipes |-> RankRecipeData(Complete(<<>>, SearchIngredients(order), RequestedNumber,
                                                 EmptyCache).data,
                                        SearchIngredients(order)).recipes] :
               order \in Orderings(NormalizedIngredients(items))} :
           items \in LargeInventories}

(***************************************************************************)
(* The matcher on its own: one call, then the call with the arguments      *)
(* swapped.                                                                *)
(***************************************************************************)
\* the longest recipe ingredient of the inputs, in words
MaxWords == 2

MatchWords == {"milk", "coconut", "flour", "wheat", "fresh", "powder", "dahi", "yogurt"}

\* ' '.join(words)
JoinWords(words) ==
    Concat([i \in 1..(2 * Len(words) - 1) |->
              IF i % 2 = 1 THEN words[(i + 1) \div 2] ELSE " "])

Phrases == {JoinWords(words) : words \in UNION {[1..n -> MatchWords] : n \in 0..MaxWords}}

RecipeIngredients ==
    Phrases \cup {"almond milk", "soy milk", "oat milk", "2 cups coconut milk",
                  "rice flour", "gram flour", "all purpose flour", "buttermilk",
                  "Milk Powder", "Coconut Milk, fresh"}

UserIngredients == {"milk", "flour", "yogurt", "coconut milk", "fresh", "Dahi", ""}

MatchInit ==
    /\ pc = "call"
    /\ user_ingredient \in UserIngredients
    /\ recipe_ingredient \in RecipeIngredients
    /\ match_result = FALSE
    /\ swapped_result = FALSE
    /\ RequestsIdle
    /\ ScoreIdle
    /\ NormIdle
    /\ ViewsIdle

CheckIngredientMatch ==
    /\ pc = "call"
    /\ match_result' = _check_ingredient_match_smart(user_ingredient, recipe_ingredient)
    /\ pc' = "matched"
    /\ UNCHANGED <<user_ingredient, recipe_ingredient, swapped_result, requestVars, scoreVars, normVars, viewVars>>

CheckIngredientMatchSwapped ==
    /\ pc = "matched"
    /\ swapped_result' = _check_ingredient_match_smart(recipe_ingredient, user_ingredient)
    /\ pc' = "matched_both"
    /\ UNCHANGED <<user_ingredient, recipe_ingredient, match_result, requestVars, scoreVars, normVars, viewVars>>

MatchNext == CheckIngredientMatch \/ CheckIngredientMatchSwapped

MatchSpec == MatchInit /\ [][MatchNext]_vars

(***************************************************************************)
(* The matcher on two names of one group of its synonym table.             *)
(***************************************************************************)
\* the groups of the table: a base name with its aliases
SynonymGroups == {{entry[1]} \cup SeqToSet(entry[2]) : entry \in SeqToSet(synonyms)}

SynonymInit ==
    /\ pc = "call"
    /\ \E group \in SynonymGroups :
          /\ user_ingredient \in group
          /\ recipe_ingredient \in group
    /\ match_result = FALSE
    /\ swapped_result = FALSE
    /\ RequestsIdle
    /\ ScoreIdle
    /\ NormIdle
    /\ ViewsIdle

SynonymSpec == SynonymInit /\ [][MatchNext]_vars

(***************************************************************************)
(* The normalization on its own: a name is normalized, and what came out   *)
(* is normalized again.                                                    *)
(***************************************************************************)
\* the names normalized: the keys and the values of ingredient_mappings,
\* and names with quantities, measurement words, capitals and plurals
NormInputs ==
    {entry[1] : entry \in SeqToSet(ingredient_mappings)}
      \cup {entry[2] : entry \in SeqToSet(ingredient_mappings)}
      \cup {"", "3 eggs", "2 cups rice", "1 kg tomatoes", " Basmati Rice ", "glass",
            "oats", "500 g paneer", "gas", "Mangoes", "2 cloves garlic", "hummus"}

NormInit ==
    /\ pc = "normalize"
    /\ raw_name \in NormInputs
    /\ normalized = ""
    /\ renormalized = ""
    /\ MatcherIdle
    /\ RequestsIdle
    /\ ScoreIdle
    /\ ViewsIdle

\* one pass of the loop "for ingredient in ingredients" on the name
Normalize ==
    /\ pc = "normalize"
    /\ normalized' = NormalizeIngredient(raw_name)
    /\ pc' = "normalized"
    /\ UNCHANGED <<raw_name, renormalized, matcherVars, requestVars, scoreVars, viewVars>>

\* one more pass on what the first pass appended to mapped_ingredients
NormalizeAgain ==
    /\ pc = "normalized"
    /\ renormalized' = NormalizeIngredient(normalized)
    /\ pc' = "normalized_twice"
    /\ UNCHANGED <<raw_name, normalized, matcherVars, requestVars, scoreVars, viewVars>>

NormSpec == NormInit /\ [][Normalize \/ NormalizeAgain]_vars

(***************************************************************************)
(* The percentage on its own: the scoring of one recipe of which           *)
(* match_score of total_ingredients ingredients matched.                   *)
(***************************************************************************)
\* the longest list of ingredients of a scored recipe
MaxTotal == 50

ScoreInit ==
    /\ pc = "score"
    /\ total_ingredients \in 1..MaxTotal
    /\ match_score \in 0..total_ingredients
    /\ match_percentage = 0
    /\ MatcherIdle
    /\ RequestsIdle
    /\ NormIdle
    /\ ViewsIdle

\* recipe['match_percentage'] = int((match_score / total_ingredients) * 100)
ComputeMatchPercentage ==
    /\ pc = "score"
    /\ match_percentage' = IntPercent(match_score, total_ingredients)
    /\ pc' = "scored"
    /\ UNCHANGED <<match_score, total_ingredients, matcherVars, requestVars, normVars, viewVars>>

ScoreSpec == ScoreInit /\ [][ComputeMatchPercentage]_vars

(***************************************************************************)
(* The views of the inventory (add_item, edit_item, delete_item,           *)
(* delete_item_ajax, recipe_detail) on the FoodItem table, while the days  *)
(* pass.  Every request comes from a logged-in user (@login_required).     *)
(* The table is the sequence of the rows by id; the row of a deleted item  *)
(* is None.  A row holds the fields the views read or write.               *)
(***************************************************************************)
MaxItems == 2   \* the rows ever created
MaxDay == 2     \* the days of a behaviour

Users == {"asha", "ravi"}

\* the names given to FoodItems in the forms
FoodNames == {"Milk", "flour"}

\* the meals TheMealDB knows, by idMeal, each with the strIngredient fields
\* that are not empty
Meals ==
    << [idMeal |-> "52", strMeal |-> "Buttermilk Pancakes",
        ingredients |-> <<"Buttermilk", "Plain Flour", "Eggs">>] >>

\* the item of the id, whoever owns it
GetObjectOfAnyUser(rows, item_id, user) ==
    {i \in DOMAIN rows : i = item_id /\ rows[i] # None}

\* get_object_or_404(FoodItem, id=item_id, user=user): the ids found
GetObject(rows, item_id, user) ==
    {i \in DOMAIN rows : i = item_id /\ rows[i] # None /\ rows[i].user = user}

\* what a save on the given day stores: the pre_save signal, and
\* update_expiry_status, set is_expired
Saved(item, day) == [item EXCEPT !.is_expired = item.expiry_date < day]

\* ingredient['has_it'] of recipe_detail
HasIt(ingredient_name, user_ingredients) ==
    \E user_ing \in user_ingredients :
        Contains(user_ing, ingredient_name) \/ Contains(ingredient_name, user_ing)

\* recipe_data of recipe_detail for a meal, given the lowercased names of the
\* user's items
RecipeDetailData(meal, user_ingredients) ==
    [id |-> meal.idMeal,
     title |-> meal.strMeal,
     ingredients |->
        [i \in 1..Len(meal.ingredients) |->
            [name |-> meal.ingredients[i],
             has_it |-> HasIt(Lower(meal.ingredients[i]), user_ingredients)]],
     has_count |->
        Cardinality({i \in 1..Len(meal.ingredients) :
                        HasIt(Lower(meal.ingredients[i]), user_ingredients)}),
     total_count |-> Len(meal.ingredients),
     ingredients_percentage |->
        IF Len(meal.ingredients) > 0
        THEN MatchPercentage(Cardinality({i \in 1..Len(meal.ingredients) :
                                             HasIt(Lower(meal.ingredients[i]),
                                                   user_ingredients)}),
                             Len(meal.ingredients))
        ELSE 0,
     cached |-> FALSE]

ViewInit ==
    /\ pc = "views"
    /\ ViewsIdle
    /\ MatcherIdle
    /\ RequestsIdle
    /\ ScoreIdle
    /\ NormIdle

\* add_item: a POST with a valid form creates the user's item and saves it
AddItem ==
    /\ pc = "views"
    /\ \E user \in Users, method \in {"GET", "POST"} :
          /\ request' = [view |-> "add_item", user |-> user, method |-> method,
                         ajax |-> FALSE, id |-> 0]
          /\ \/ /\ method = "POST"      \* form.is_valid()
                /\ Len(food_items) < MaxItems
                /\ \E name \in FoodNames, expiry_date \in 1..MaxDay :
                      food_items' = Append(food_items,
                                           Saved([user |-> user, name |-> name,
                                                  expiry_date |-> expiry_date,
                                                  is_expired |-> FALSE], today))
                /\ response' = [status |-> 302]
             \/ /\ UNCHANGED food_items  \* a GET, or a form that is not valid
                /\ response' = [status |-> 200]
    /\ UNCHANGED <<pc, today, matcherVars, requestVars, scoreVars, normVars>>

\* edit_item: a POST with a valid form saves the fields of the form in the
\* user's item
EditItem ==
    /\ pc = "views"
    /\ \E user \in Users, item_id \in 1..MaxItems, method \in {"GET", "POST"} :
          /\ request' = [view |-> "edit_item", user |-> user, method |-> method,
                         ajax |-> FALSE, id |-> item_id]
          /\ IF GetObject(food_items, item_id, user) = {}
             THEN /\ UNCHANGED food_items
                  /\ response' = [status |-> 404]
             ELSE \/ /\ method = "POST"      \* form.is_valid()
                     /\ \E name \in FoodNames, expiry_date \in 1..MaxDay :
                           food_items' =
                               [food_items EXCEPT ![item_id] =
                                   Saved([@ EXCEPT !.name = name,
                                                   !.expiry_date = expiry_date], today)]
                     /\ response' = [status |-> 302]
                  \/ /\ UNCHANGED food_items  \* a GET, or a form that is not valid
                     /\ response' = [status |-> 200]
    /\ UNCHANGED <<pc, today, matcherVars, requestVars, scoreVars, normVars>>

\* delete_item: a POST deletes the user's item, a GET shows the confirmation
DeleteItem ==
    /\ pc = "views"
    /\ \E user \in Users, item_id \in 1..MaxItems, method \in {"GET", "POST"} :
          /\ request' = [view |-> "delete_item", user |-> user, method |-> method,
                         ajax |-> FALSE, id |-> item_id]
          /\ IF GetObject(food_items, item_id, user) = {}
             THEN /\ UNCHANGED food_items
                  /\ response' = [status |-> 404]
             ELSE IF method = "POST"
             THEN /\ food_items' = [food_items EXCEPT ![item_id] = None]
                  /\ response' = [status |-> 302]
             ELSE /\ UNCHANGED food_items
                  /\ response' = [status |-> 200]
    /\ UNCHANGED <<pc, today, matcherVars, requestVars, scoreVars, normVars>>

\* delete_item_ajax: a DELETE with the header X-Requested-With:
\* XMLHttpRequest deletes the user's item, any other request is answered 400
DeleteItemAjax ==
    /\ pc = "views"
    /\ \E user \in Users, item_id \in 1..MaxItems, method \in {"DELETE", "POST"},
          ajax \in BOOLEAN :
          /\ request' = [view |-> "delete_item_ajax", user |-> user, method |-> method,
                         ajax |-> ajax, id |-> item_id]
          /\ IF ~(method = "DELETE" /\ ajax)
             THEN /\ UNCHANGED food_items
                  /\ response' = [status |-> 400]
             ELSE IF GetObject(food_items, item_id, user) = {}
             THEN /\ UNCHANGED food_items
                  /\ response' = [status |-> 404]
             ELSE /\ food_items' = [food_items EXCEPT ![item_id] = None]
                  /\ response' = [status |-> 200]
    /\ UNCHANGED <<pc, today, matcherVars, requestVars, scoreVars, normVars>>

\* recipe_detail: the recipe is read from the cache, or fetched from
\* TheMealDB, compared with the user's items and cached
RecipeDetail ==
    /\ pc = "views"
    \* the recipe id "99" is unknown to TheMealDB
    /\ \E user \in Users, recipe_id \in {"52", "99"}, outcome \in {"raise", "status", "ok"} :
       \E cache_key \in {"recipe_detail_full_" \o recipe_id} :
       \E meals \in {SelectSeq(Meals, LAMBDA meal : meal.idMeal = recipe_id)} :
       \E user_ingredients \in {{Lower(food_items[i].name) :
                                   i \in {k \in DOMAIN food_items :
                                             /\ food_items[k] # None
                                             /\ food_items[k].user = user}}} :
          /\ request' = [view |-> "recipe_detail", user |-> user, method |-> "GET",
                         ajax |-> FALSE, id |-> recipe_id]
          /\ IF cache_key \in DOMAIN cache
             THEN /\ response' = [status |-> 200,
                                  recipe |-> [cache[cache_key] EXCEPT !.cached = TRUE]]
                  /\ UNCHANGED cache
             ELSE IF outcome = "ok" /\ meals # <<>>
             THEN /\ response' = [status |-> 200,
                                  recipe |-> RecipeDetailData(meals[1], user_ingredients)]
                  /\ cache' = CacheSet(cache, cache_key,
                                       RecipeDetailData(meals[1], user_ingredients))
             ELSE /\ response' =
                        [status |-> 200,
                         recipe |-> [error |-> IF outcome = "raise" THEN "Error fetching recipe"
                                               ELSE IF outcome = "status" THEN "API error"
                                               ELSE "Recipe not found"]]
                  /\ UNCHANGED cache
    /\ UNCHANGED <<pc, food_items, today, inventory, search_ingredients, indian_recipes,
                   recipe_ids, recipe_data, result, requests, matcherVars, scoreVars,
                   normVars>>

\* midnight: timezone.now().date() is one day later
NextDay ==
    /\ pc = "views"
    /\ today < MaxDay
    /\ today' = today + 1
    /\ UNCHANGED <<pc, food_items, request, response, matcherVars, requestVars, scoreVars,
                   normVars>>

ViewSpec ==
    ViewInit /\ [][AddItem \/ EditItem \/ DeleteItem \/ DeleteItemAjax \/ RecipeDetail
                     \/ NextDay]_vars

\* the views that change the FoodItem table, on their own
ItemSpec == ViewInit /\ [][AddItem \/ EditItem \/ DeleteItem \/ DeleteItemAjax]_vars

(***************************************************************************)
(* Claims about the matcher (checked under MatchSpec).                     *)
(***************************************************************************)
\* C1 (as claimed): the negative overrides take precedence: "milk" matches no
\* recipe ingredient that contains coconut, almond, soy or oat or that ends in
\* " milk", and "flour" none that contains wheat, rice, gram or all purpose.
C1_NegativeOverridesTakePrecedence ==
    (/\ pc # "call"
     /\ \E recipe_ing \in {CleanIngredient(recipe_ingredient)} :
           \/ /\ user_ingredient = "milk"
              /\ \/ Contains("coconut", recipe_ing) \/ Contains("almond", recipe_ing)
                 \/ Contains("soy", recipe_ing) \/ Contains("oat", recipe_ing)
                 \/ EndsWith(recipe_ing, " milk")
           \/ /\ user_ingredient = "flour"
              /\ \/ Contains("wheat", recipe_ing) \/ Contains("rice", recipe_ing)
                 \/ Contains("gram", recipe_ing) \/ Contains("all purpose", recipe_ing))
        => match_result = FALSE

\* C10: the matcher is symmetric: the call with the arguments swapped returns
\* what the call returned.
C10_MatcherSymmetric ==
    pc = "matched_both" => match_result = swapped_result

\* C10 witness: both calls were made on two different ingredients that match
C10_Witness ==
    /\ pc = "matched_both"
    /\ CleanIngredient(user_ingredient) # CleanIngredient(recipe_ingredient)
    /\ match_result = TRUE
    /\ swapped_result = TRUE

\* C11 (as claimed): an argument that is empty after the cleaning makes the
\* matcher return false, also when both arguments clean to the empty string.
C11_EmptyAfterCleaningIsFalse ==
    (/\ pc # "call"
     /\ \/ CleanIngredient(user_ingredient) = ""
        \/ CleanIngredient(recipe_ingredient) = "")
        => match_result = FALSE

\* C12: the matcher is reflexive: called on a non-empty string and itself it
\* returns true.
C12_MatcherReflexive ==
    (pc # "call" /\ user_ingredient # "" /\ recipe_ingredient = user_ingredient)
        => match_result = TRUE

\* C12 witness: the matcher was called on "coconut milk" and itself
C12_Witness ==
    /\ pc = "matched"
    /\ user_ingredient = "coconut milk"
    /\ recipe_ingredient = "coconut milk"
    /\ match_result = TRUE

\* the words of the cleaned argument
CleanWords(ingredient) == SeqToSet(Split(CleanIngredient(ingredient)))

C14_SynonymRule ==
    (/\ pc # "call"
     /\ \E group \in SynonymGroups :
           user_ingredient \in group /\ recipe_ingredient \in group)
        => /\ match_result = TRUE
           /\ pc = "matched_both" => swapped_result = TRUE

\* C14 witness: "yogurt" and "dahi" were matched in both orders
C14_Witness ==
    /\ pc = "matched_both"
    /\ user_ingredient = "yogurt"
    /\ recipe_ingredient = "dahi"
    /\ match_result = TRUE
    /\ swapped_result = TRUE

(***************************************************************************)
(* Claims about the normalization.                                         *)
(***************************************************************************)
\* C15: normalization is idempotent: for every name, normalizing the
\* output of the normalization returns that output unchanged.
C15_NormalizationIdempotent ==
    pc = "normalized_twice" => renormalized = normalized

(***************************************************************************)
(* Claims about the percentage (checked under ScoreSpec).                  *)
(***************************************************************************)
\* C5 (as claimed): the percentage of a scored recipe is
\* floor(matched * 100 / total), with 0 <= matched <= total, so it lies in
\* 0..100.
C5_PercentageIsFloor ==
    pc = "scored" =>
        /\ 0 <= match_score /\ match_score <= total_ingredients
        /\ match_percentage = (match_score * 100) \div total_ingredients
        /\ match_percentage \in 0..100

(***************************************************************************)
(* Claims about the suggestions (checked under Spec).                      *)
(***************************************************************************)
\* the candidate list handed to the ranking step of the request served
Candidates == IF recipe_data = None THEN <<>> ELSE recipe_data.recipes

\* the recipes get_recipe_suggestions returned
Returned == result.recipes

\* a returned recipe without the fields the ranking added to it
Unscored(r) ==
    [id |-> r.id, title |-> r.title, ingredients |-> r.ingredients, api |-> r.api,
     is_indian |-> r.is_indian]

\* C2 (as claimed): with the inventory onion, tomato, paneer the static recipe
\* "Chana Masala" is scored with 2 matched ingredients, 25 percent and the
\* tier Low.
C2_EndToEndScenario ==
    (pc = "done" /\ inventory = {"onion", "tomato", "paneer"}) =>
        \A i \in 1..Len(Returned) :
            Returned[i].title = "Chana Masala" =>
                /\ Returned[i].matching_ingredients = 2
                /\ Returned[i].match_percentage = 25
                /\ "feasibility" \in DOMAIN Returned[i]
                /\ Returned[i].feasibility = "Low"

\* C3 (as claimed): whenever the candidate list handed to the ranking is not
\* empty, the returned list is not empty.
C3_NeverEmptyWhenCandidatesExist ==
    (pc = "done" /\ Candidates # <<>>) => Returned # <<>>

\* C4 (as claimed): a candidate without listed ingredients is scored with
\* match_percentage 0 and stays in the result; stated where the ranking cuts
\* nothing off: no returned recipe reaches the threshold and the candidates
\* are no more than the top of the unfiltered list.
C4_EmptyTotalScoredZero ==
    (/\ pc = "done"
     /\ Len(Candidates) <= TopUnfiltered
     /\ \A j \in 1..Len(Returned) : Returned[j].match_percentage < MatchThreshold) =>
        \A i \in 1..Len(Candidates) :
            RecipeIngredientNames(Candidates[i]) = <<>> =>
                \E j \in 1..Len(Returned) :
                    /\ Unscored(Returned[j]) = Candidates[i]
                    /\ Returned[j].match_percentage = 0

\* C6 (as claimed): every scored recipe returned carries the feasibility tier
\* of its match_percentage: High from 80, Medium from 50 to 79, Low below 50.
C6_FeasibilityTier ==
    pc = "done" =>
        \A i \in 1..Len(Returned) :
            /\ "feasibility" \in DOMAIN Returned[i]
            /\ Returned[i].feasibility =
                  IF Returned[i].match_percentage >= 80 THEN "High"
                  ELSE IF Returned[i].match_percentage >= 50 THEN "Medium"
                  ELSE "Low"

\* C7: the returned recipes are in order of non-increasing match_percentage,
\* and two of them with equal match_percentage are in the order they had in
\* the candidate list.
C7_SortedStable ==
    pc = "done" =>
        \A i, j \in 1..Len(Returned) :
            i < j =>
                /\ Returned[i].match_percentage >= Returned[j].match_percentage
                /\ Returned[i].match_percentage = Returned[j].match_percentage =>
                      \E a, b \in 1..Len(Candidates) :
                          /\ a < b
                          /\ Candidates[a] = Unscored(Returned[i])
                          /\ Candidates[b] = Unscored(Returned[j])

\* C7 witness: the ranking moved a candidate to the front, ahead of two
\* different recipes with equal percentages
C7_Witness ==
    /\ pc = "done"
    /\ Len(Returned) >= 3
    /\ Unscored(Returned[1]) # Candidates[1]
    /\ \E j, k \in 1..Len(Returned) :
          /\ j < k
          /\ Returned[1].match_percentage > Returned[j].match_percentage
          /\ Returned[j].match_percentage = Returned[k].match_percentage
          /\ Unscored(Returned[j]) # Unscored(Returned[k])

\* C8: whenever some scored candidate reaches 20 percent, every returned
\* recipe does; recipes below 20 percent are returned only when no candidate
\* reaches it.
C8_ThresholdFilter ==
    pc = "done" =>
        LET scored == ScoreRecipes(Candidates, search_ingredients)
        IN (\E i \in 1..Len(scored) : scored[i].match_percentage >= MatchThreshold) =>
               \A j \in 1..Len(Returned) : Returned[j].match_percentage >= MatchThreshold

\* C8 witness: a candidate below the threshold was left out because another
\* one reaches it
C8_Witness ==
    /\ pc = "done"
    /\ Returned # <<>>
    /\ LET scored == ScoreRecipes(Candidates, search_ingredients)
       IN /\ \E i \in 1..Len(scored) : scored[i].match_percentage >= MatchThreshold
          /\ \E i \in 1..Len(scored) :
                /\ scored[i].match_percentage < MatchThreshold
                /\ \A j \in 1..Len(Returned) : Returned[j].id # scored[i].id

\* C9 (as claimed): the matched ingredients of a returned recipe are those
\* that the normalized name of some item of the inventory matches: nothing
\* absent from the inventory is on the user side of the match.
C9_MatchedOnlyOwned ==
    pc = "done" =>
        /\ SeqToSet(search_ingredients) \subseteq NormalizedIngredients(inventory)
        /\ \A i \in 1..Len(Returned) :
              \E recipe_ingredients \in {RecipeIngredientNames(Returned[i])} :
                  Returned[i].matching_ingredients =
                      Cardinality({k \in 1..Len(recipe_ingredients) :
                                      \E owned \in NormalizedIngredients(inventory) :
                                          IngredientMatch(owned, recipe_ingredients[k])})

\* C16: a request on an empty inventory is answered, without a query to a
\* source and without a cache entry, by a result that is not an error and
\* whose recipe list is empty.
C16_EmptyInventorySucceeds ==
    (pc = "done" /\ inventory = {}) =>
        /\ result.recipes = <<>>
        /\ "error" \notin DOMAIN result
        /\ cache = EmptyCache
        /\ recipe_data = None

\* the candidates that came formatted from the Spoonacular searches
FromApi == {i \in 1..Len(Candidates) : Candidates[i].api = "spoonacular"}

\* C17 (as claimed): when the cuisine search of a request gave nothing while
\* the general search gave at least one recipe and the static catalog has one
\* matching the user's ingredients, the result is not an error and its recipe
\* list is not empty.
C17_SourceFailureDegradation ==
    (/\ pc = "done"
     /\ search_ingredients # <<>>
     /\ ~result.cached
     /\ indian_recipes = <<>>
     /\ FromApi # {}
     /\ StaticFallback(search_ingredients, RequestedNumber) # <<>>) =>
        /\ "error" \notin DOMAIN result
        /\ Returned # <<>>

\* C18 (as claimed): the result of a request on a non-empty search is an
\* error result, carrying a message, exactly when neither the Spoonacular
\* searches nor the static catalog gave a candidate.
C18_ErrorOnlyWhenAllSourcesExhausted ==
    (pc = "done" /\ search_ingredients # <<>>) =>
        ("error" \in DOMAIN result <=> Candidates = <<>>)

\* C19 (as claimed): when the details fetched for the first request hold a
\* recipe that the formatter cannot format, every other recipe of these
\* details is formatted and is among the candidates handed to the ranking.
C19_MalformedRecipeIsolated ==
    (/\ pc = "done"
     /\ requests = 1
     /\ recipe_ids # <<>>
     /\ BulkCacheKey(recipe_ids) \in DOMAIN cache) =>
        \A recipe \in SeqToSet(cache[BulkCacheKey(recipe_ids)]) :
            ~FormatRaises(recipe) =>
                \E j \in FromApi : Candidates[j] = _format_recipe_spoonacular(recipe)

\* C20 (as claimed): when the cuisine search of a request that missed the
\* cache gave fewer recipes than the minimum and the Spoonacular searches
\* together fewer than were asked for, the static catalog recipes matching
\* the user's ingredients are candidates too, as far as the number asked for
\* has room for them.
C20_StaticSupplement ==
    (/\ pc = "done"
     /\ search_ingredients # <<>>
     /\ ~recipe_data.cached
     /\ recipe_data.load_time = "fresh"
     /\ Len(indian_recipes) < Min(RequestedNumber, IndianEnough)
     /\ Cardinality(FromApi) + Len(StaticFallback(search_ingredients, RequestedNumber))
           <= RequestedNumber) =>
        \A static \in SeqToSet(StaticFallback(search_ingredients, RequestedNumber)) :
            \E j \in 1..Len(Candidates) \ FromApi : Candidates[j] = static

\* C21 (as claimed): the flag 'cached' of an answer is true exactly when the
\* answer was read from the cache: the answer to a cache hit is flagged, and
\* neither an answer computed from the sources or the static catalog nor the
\* answer for an inventory without ingredients is; the ranking leaves the
\* flag as it is.
C21_CachedFlag ==
    [][/\ (pc \in {"idle", "done"} /\ pc' = "rank") => recipe_data'.cached
       /\ (pc \in {"indian", "general", "bulk"} /\ pc' = "rank") => ~recipe_data'.cached
       /\ (pc \in {"idle", "done"} /\ pc' = "done") => ~result'.cached
       /\ (pc = "rank" /\ pc' = "done") => (result'.cached <=> recipe_data.cached)]_vars

\* C22 (as claimed): the cache key of a call is the key of another call
\* exactly when the two lists of ingredients hold the same set of names (the
\* number asked for being the same).
C22_CacheKeyOfIngredientSet ==
    (pc # "idle" /\ search_ingredients # <<>>) =>
        \A call \in LargeCalls :
            (call.key = CacheKey(search_ingredients, RequestedNumber))
                <=> (SeqToSet(call.ingredients) = SeqToSet(search_ingredients))

\* C26 (as claimed): the empty string is never a search ingredient, and an
\* inventory whose names all normalize to the empty string is answered with
\* no recipe, no source queried and nothing cached.
C26_EmptyNamesAreNoIngredients ==
    pc # "idle" =>
        /\ ~InSeq("", search_ingredients)
        /\ NormalizedIngredients(inventory) \subseteq {""} =>
              /\ pc = "done"
              /\ recipe_data = None
              /\ Returned = <<>>
              /\ cache = EmptyCache

\* C27 (as claimed): with the cuisine search failing and the general search
\* answering no recipe, the recipes returned for an inventory, with their
\* scores, are the same whatever the order of its normalized names.
C27_DeterministicRanking ==
    (/\ pc = "done"
     /\ search_ingredients # <<>>
     /\ IndianCacheKey(search_ingredients) \notin DOMAIN cache
     /\ recipe_ids = <<>>
     /\ recipe_data.load_time = "fresh") =>
        \A call \in LargeCalls : call.inventory = inventory => call.recipes = Returned

\* C28 (as claimed): the list of recipes get_recipes_by_ingredients returned
\* holds no two recipes of one source with the same id.
C28_NoDuplicateWithinSource ==
    pc \in {"rank", "done"} =>
        \A i, j \in 1..Len(Candidates) :
            (i < j /\ Candidates[i].api = Candidates[j].api) =>
                Candidates[i].id # Candidates[j].id

\* C29: get_recipes_by_ingredients stores its answer under the key of the
\* request exactly when it answers from the try block: an answer of the
\* except block (load_time 'error_fallback') leaves no entry under the key,
\* any other fresh answer, an empty one included, is the entry under the key;
\* and a later request is served from the cache exactly when the key has an
\* entry, else it queries the sources again.
C29_CacheWrites ==
    [][/\ (pc \in {"indian", "general", "bulk"} /\ pc' = "rank") =>
             IF recipe_data'.load_time = "error_fallback"
             THEN CacheKey(search_ingredients, RequestedNumber) \notin DOMAIN cache'
             ELSE /\ CacheKey(search_ingredients, RequestedNumber) \in DOMAIN cache'
                  /\ cache'[CacheKey(search_ingredients, RequestedNumber)] = recipe_data'
       /\ (pc \in {"idle", "done"} /\ pc' = "indian") =>
             CacheKey(search_ingredients', RequestedNumber) \notin DOMAIN cache
       /\ (pc \in {"idle", "done"} /\ pc' = "rank") =>
             /\ CacheKey(search_ingredients', RequestedNumber) \in DOMAIN cache
             /\ recipe_data' = [cache[CacheKey(search_ingredients', RequestedNumber)]
                                   EXCEPT !.cached = TRUE]]_vars

\* C29 witness: a second request answered by the except block again: the
\* first answer of the except block was not cached
C29_Witness ==
    /\ pc = "done"
    /\ requests = 2
    /\ search_ingredients # <<>>
    /\ result.load_time = "error_fallback"
    /\ CacheKey(search_ingredients, RequestedNumber) \notin DOMAIN cache

(***************************************************************************)
(* Claims about the views of the inventory                                 *)
(***************************************************************************)
\* C23: in a recipe that recipe_detail has just computed, the has_it flag of
\* an ingredient is true exactly when _check_ingredient_match_smart is true
\* of one of the items of the requesting user and the ingredient (an
\* inventory of only "milk" does not flag "buttermilk").
C23_HasItIsMatcherVerdict ==
    (/\ request # None
     /\ request.view = "recipe_detail"
     /\ "ingredients" \in DOMAIN response.recipe
     /\ ~response.recipe.cached)
    => \A i \in DOMAIN response.recipe.ingredients :
          response.recipe.ingredients[i].has_it
          <=> \E k \in DOMAIN food_items :
                 /\ food_items[k] # None
                 /\ food_items[k].user = request.user
                 /\ IngredientMatch(Lower(food_items[k].name),
                                    Lower(response.recipe.ingredients[i].name))

\* C24: the has_it flags, has_count and ingredients_percentage that
\* recipe_detail shows are those of the items the requesting user has at the
\* time of the request, never those computed for another user or for an
\* earlier state of the inventory.
C24_DetailOfCurrentInventory ==
    (/\ request # None
     /\ request.view = "recipe_detail"
     /\ "ingredients" \in DOMAIN response.recipe)
    => \E meal \in {m \in SeqToSet(Meals) : m.idMeal = request.id} :
       \E current \in {RecipeDetailData(meal,
                                        {Lower(food_items[k].name) :
                                            k \in {j \in DOMAIN food_items :
                                                      /\ food_items[j] # None
                                                      /\ food_items[j].user = request.user}})} :
          /\ response.recipe.ingredients = current.ingredients
          /\ response.recipe.has_count = current.has_count
          /\ response.recipe.ingredients_percentage = current.ingredients_percentage

\* C25: at every moment the is_expired of every stored FoodItem equals
\* (expiry_date < today), also after the date has advanced past the
\* expiry_date without a save of the item.
C25_IsExpiredCurrent ==
    \A k \in DOMAIN food_items :
        food_items[k] # None
        => (food_items[k].is_expired <=> (food_items[k].expiry_date < today))

\* C30: an item is modified or deleted only by a request of edit_item,
\* delete_item or delete_item_ajax for that item from the user who owns it;
\* delete_item deletes only on a POST; delete_item_ajax deletes only on a
\* DELETE with the header X-Requested-With: XMLHttpRequest, and otherwise
\* answers 400 and leaves the inventory unchanged.
C30_IsolationAndMethodGuards ==
    [][/\ \A k \in DOMAIN food_items :
             (food_items[k] # None /\ food_items'[k] # food_items[k])
             => /\ request'.view \in {"edit_item", "delete_item", "delete_item_ajax"}
                /\ request'.id = k
                /\ request'.user = food_items[k].user
                /\ request'.view = "delete_item"
                   => (request'.method = "POST" /\ food_items'[k] = None)
                /\ request'.view = "delete_item_ajax"
                   => (request'.method = "DELETE" /\ request'.ajax /\ food_items'[k] = None)
       /\ (/\ request' # None
           /\ request'.view = "delete_item_ajax"
           /\ ~(request'.method = "DELETE" /\ request'.ajax))
          => (response'.status = 400 /\ food_items' = food_items)
       /\ (/\ request' # None
           /\ request'.view = "delete_item"
           /\ request'.method = "GET")
          => food_items' = food_items]_vars

\* a POST to delete_item for an item of another user is answered 404 and the
\* item is still there
C30_Witness ==
    /\ request # None
    /\ request.view = "delete_item"
    /\ request.method = "POST"
    /\ response.status = 404
    /\ request.id \in DOMAIN food_items
    /\ food_items[request.id] # None
    /\ food_items[request.id].user # request.user

====
